---- MODULE Spec2Model ----
(***************************************************************************)
(* A model of the useScrollAnimation hook (src/src/useScrollAnimation.js)  *)
(* for one caller scope, together with the host's IntersectionObserver     *)
(* engine the hook drives and the part of the DOM it reads and writes.     *)
(* A second caller scope with an engine of its own is kept in the record   *)
(* "other" and moves only in the two-scope specification.                  *)
(*                                                                         *)
(* One scope goes through the phases                                       *)
(*   idle -> committing -> active -> committing -> ... -> unmounted        *)
(* where "committing" is the point of React's commit between the cleanup   *)
(* of the previous effect and the body of the next one (nothing else runs  *)
(* in between: the commit is synchronous), and "failed" is the phase after *)
(* the effect body threw.                                                  *)
(*                                                                         *)
(* The engine follows the W3C IntersectionObserver processing model:       *)
(* observe() registers a target with no previous state, the rendering      *)
(* update queues a record for each registered target whose state changed   *)
(* (always for a fresh registration), the notification task hands the      *)
(* queued records to the callback the engine was constructed with,         *)
(* takeRecords() returns and empties the queue, and unobserve() removes    *)
(* the registration. The standard leaves the released target's queued      *)
(* records in the queue; some engines discard them. The host decides       *)
(* (unobserveDrops).                                                       *)
(***************************************************************************)
EXTENDS Integers, Sequences, FiniteSets, TLC

\* The most records the engine's queue holds before the notification task runs.
MaxQueue == 2

----------------------------------------------------------------------------
VARIABLES
    hasIO,              \* the host defines IntersectionObserver
    unobserveDrops,     \* the host's unobserve() discards the queued records
                        \* of the target (the standard keeps them; engines
                        \* differ)
    className,          \* per element: it has the class animate-on-scroll
    phase,              \* idle, committing, active, unmounted, failed
    error,              \* what the last effect body threw, or "none"
    targetSelector,     \* the hook's arguments at the latest render
    visibleClass,
    options,
    targets,            \* the NodeList the latest effect body resolved
    observerRef,        \* "null", or "io" once the engine is constructed
    ioCallback,         \* what the engine's callback closed over
    ioThreshold,        \* the threshold the engine was constructed with
    ioRootMargin,       \* the rootMargin the engine was constructed with
    constructed,        \* how many engines the scope has constructed
    registration,       \* per element: absent, or the engine's previous state
    queuedEntries,      \* the engine's queue of records
    classList,          \* per element: its class names among VisibleClasses
    other,              \* a second caller scope of the hook on the same page:
                        \* its arguments, effect closure and engine
    ratio               \* per element: its intersection ratio with the viewport

vars == <<hasIO, unobserveDrops, className, phase, error, targetSelector, visibleClass, options, targets,
          observerRef, ioCallback, ioThreshold, ioRootMargin, constructed,
          registration, queuedEntries, classList, ratio, other>>

hostVars == <<hasIO, unobserveDrops, className>>

hookVars == <<phase, error, targetSelector, visibleClass, options, targets>>

engineConfig ==
    <<observerRef, ioCallback, ioThreshold, ioRootMargin, constructed>>

----------------------------------------------------------------------------
(* The document: the two first elements of App.js, in document order.      *)

Document == <<"h1", "p">>

Elements == {Document[i] : i \in 1..Len(Document)}

\* The selectors a caller passes: two that match, one that matches nothing,
\* one that is not a selector.
Selectors == {".animate-on-scroll", "p", "h2", "p["}

\* Whether element e matches the (well-formed) selector sel: by its class,
\* which the page may change, or by its tag.
MatchesSelector(e, sel) ==
    CASE sel = ".animate-on-scroll" -> className[e]
      [] sel = "p"                  -> e = "p"
      [] OTHER                      -> FALSE

IsValidSelector(sel) == sel # "p["

RECURSIVE SelectSeq2(_, _, _)
\* The elements of doc from index i on that match sel, in document order.
SelectSeq2(doc, i, sel) ==
    IF i > Len(doc) THEN <<>>
    ELSE (IF MatchesSelector(doc[i], sel) THEN <<doc[i]>> ELSE <<>>)
         \o SelectSeq2(doc, i + 1, sel)

\* A querySelectorAll that fails when nothing matches (as the forEach over
\* the null of a querySelector would).
QuerySelectorAllThrowsOnEmpty(sel) ==
    IF IsValidSelector(sel) /\ SelectSeq2(Document, 1, sel) # <<>>
    THEN [threw |-> FALSE, nodes |-> SelectSeq2(Document, 1, sel)]
    ELSE [threw |-> TRUE,  nodes |-> <<>>]

\* A querySelectorAll that takes a malformed selector for one that matches
\* nothing.
QuerySelectorAllLenient(sel) ==
    [threw |-> FALSE,
     nodes |-> IF IsValidSelector(sel) THEN SelectSeq2(Document, 1, sel) ELSE <<>>]

\* document.querySelectorAll(sel): a SyntaxError for a malformed selector,
\* else the static list of the matching elements in document order.
QuerySelectorAll(sel) ==
    IF IsValidSelector(sel)
    THEN [threw |-> FALSE, nodes |-> SelectSeq2(Document, 1, sel)]
    ELSE [threw |-> TRUE,  nodes |-> <<>>]

\* The class names a caller passes as visibleClass.
VisibleClasses == {"is-visible", "activated"}

\* Thresholds and intersection ratios, in percent: the default threshold, and
\* an element that is out of the viewport or fully in it.
Thresholds == {10}

Ratios == {0, 100}

\* options.rootMargin: "undefined" stands for an options object without it.
RootMargins == {"undefined"}

OptionsSet ==
    [threshold : Thresholds, triggerOnce : BOOLEAN, rootMargin : RootMargins]

\* The options of a caller that also varies the threshold and the margin.
ConfigOptionsSet ==
    [threshold : {10, 90}, triggerOnce : BOOLEAN,
     rootMargin : {"undefined", "50px"}]

\* The default of the third parameter.
DefaultOptions ==
    [threshold |-> 10, triggerOnce |-> TRUE, rootMargin |-> "undefined"]

----------------------------------------------------------------------------
(* The engine.                                                             *)

\* isIntersecting of a record: the ratio reaches the engine's threshold.
IsIntersecting(r, threshold) == r >= threshold

\* observer.observe(t): a new registration without previous state; nothing
\* changes for a target that is registered already.
Observe(reg, t) ==
    IF reg[t] = "absent" THEN [reg EXCEPT ![t] = "fresh"] ELSE reg

\* observer.unobserve(t): the registration goes, queued records stay.
Unobserve(reg, t) == [reg EXCEPT ![t] = "absent"]

\* observer.takeRecords(): the queued records; the queue is emptied.
TakeRecords(queue) == [records |-> queue, queue |-> <<>>]

Observed(reg) == {e \in Elements : reg[e] # "absent"}

StateOf(b) == IF b THEN "intersecting" ELSE "notIntersecting"

\* A registered target gets a record when its state differs from the one
\* last recorded, and always when the registration is fresh.
NeedsRecord(reg, rat, threshold, e) ==
    /\ reg[e] # "absent"
    /\ reg[e] # StateOf(IsIntersecting(rat[e], threshold))

RECURSIVE NewRecords(_, _, _, _, _)
\* The records one rendering update queues, targets taken in document order.
NewRecords(doc, i, reg, rat, threshold) ==
    IF i > Len(doc) THEN <<>>
    ELSE (IF NeedsRecord(reg, rat, threshold, doc[i])
          THEN <<[target |-> doc[i],
                  isIntersecting |-> IsIntersecting(rat[doc[i]], threshold)]>>
          ELSE <<>>)
         \o NewRecords(doc, i + 1, reg, rat, threshold)

----------------------------------------------------------------------------
(* The hook.                                                               *)

\* classList.add and classList.remove on one element.
ClassListAdd(cl, t, c) == [cl EXCEPT ![t] = @ \cup {c}]

ClassListRemove(cl, t, c) == [cl EXCEPT ![t] = @ \ {c}]

\* A callback that disconnects the engine where the code releases the one
\* element of the entry.
HandleEntryDisconnects(st, entry, cb) ==
    IF entry.isIntersecting
    THEN [classList |-> ClassListAdd(st.classList, entry.target, cb.visibleClass),
          registration |-> IF cb.triggerOnce
                            THEN [e \in Elements |-> "absent"]
                            ELSE st.registration]
    ELSE [classList |-> IF ~cb.triggerOnce
                         THEN ClassListRemove(st.classList, entry.target, cb.visibleClass)
                         ELSE st.classList,
          registration |-> st.registration]

\* The body of entries.forEach in intersectionCallback, for one entry; cb is
\* what the callback closed over, st the classes and registrations.
HandleEntry(st, entry, cb) ==
    IF entry.isIntersecting
    THEN [classList |-> ClassListAdd(st.classList, entry.target, cb.visibleClass),
          registration |-> IF cb.triggerOnce
                            THEN Unobserve(st.registration, entry.target)
                            ELSE st.registration]
    ELSE [classList |-> IF ~cb.triggerOnce
                         THEN ClassListRemove(st.classList, entry.target, cb.visibleClass)
                         ELSE st.classList,
          registration |-> st.registration]

RECURSIVE IntersectionCallback(_, _, _, _)
\* intersectionCallback(entries, observer): the entries from index i on.
IntersectionCallback(entries, i, st, cb) ==
    IF i > Len(entries) THEN st
    ELSE IntersectionCallback(entries, i + 1, HandleEntry(st, entries[i], cb), cb)

\* alreadyVisible: some taken record is of this target and intersecting.
AlreadyVisible(records, t) ==
    \E k \in 1..Len(records) :
        records[k].target = t /\ records[k].isIntersecting

\* The body of targets.forEach in the effect, for one target.
AttachTarget(st, t, cls, opts) ==
    LET taken == TakeRecords(st.queuedEntries)
    IN  IF AlreadyVisible(taken.records, t)
        THEN [classList |-> ClassListAdd(st.classList, t, cls),
              registration |-> IF ~opts.triggerOnce
                                THEN Observe(st.registration, t)
                                ELSE st.registration,
              queuedEntries |-> taken.queue]
        ELSE [classList |-> st.classList,
              registration |-> Observe(st.registration, t),
              queuedEntries |-> taken.queue]

RECURSIVE AttachLoop(_, _, _, _, _)
\* targets.forEach(...) of the effect body, from index i on.
AttachLoop(ts, i, st, cls, opts) ==
    IF i > Len(ts) THEN st
    ELSE AttachLoop(ts, i + 1, AttachTarget(st, ts[i], cls, opts), cls, opts)

\* A cleanup that releases the first target only.
CleanupFirstOnly(ts, i, reg) ==
    IF Len(ts) = 0 THEN reg ELSE Unobserve(reg, ts[1])

RECURSIVE CleanupQueue(_, _, _, _)
\* What the unobserve calls of the cleanup leave of the engine's queue: all
\* of it on a host that keeps the records of a released target, the records
\* of the other elements on a host that discards them.
CleanupQueue(ts, i, queue, drops) ==
    IF i > Len(ts) \/ ~drops THEN queue
    ELSE CleanupQueue(ts, i + 1,
                      SelectSeq(queue, LAMBDA r : r.target # ts[i]), drops)

RECURSIVE CleanupLoop(_, _, _)
\* targets.forEach(target => observer.unobserve(target)) of the cleanup.
CleanupLoop(ts, i, reg) ==
    IF i > Len(ts) THEN reg
    ELSE CleanupLoop(ts, i + 1, Unobserve(reg, ts[i]))

----------------------------------------------------------------------------
Init ==
    /\ hasIO \in BOOLEAN
    /\ unobserveDrops \in BOOLEAN
    /\ className = [e \in Elements |-> TRUE]
    /\ phase = "idle"
    /\ error = "none"
    /\ targetSelector = ".animate-on-scroll"
    /\ visibleClass = "is-visible"
    /\ options = DefaultOptions
    /\ targets = <<>>
    /\ observerRef = "null"
    /\ ioCallback = [visibleClass |-> "is-visible", triggerOnce |-> TRUE]
    /\ ioThreshold = 10
    /\ ioRootMargin = "0px"
    /\ constructed = 0
    /\ registration = [e \in Elements |-> "absent"]
    /\ queuedEntries = <<>>
    /\ classList = [e \in Elements |-> {}]
    /\ ratio \in [Elements -> Ratios]
    /\ other = [phase |-> "idle",
                targetSelector |-> ".animate-on-scroll",
                visibleClass |-> "is-visible",
                options |-> DefaultOptions,
                targets |-> <<>>,
                observerRef |-> "null",
                ioCallback |-> [visibleClass |-> "is-visible",
                                triggerOnce |-> TRUE],
                ioThreshold |-> 10,
                ioRootMargin |-> "0px",
                constructed |-> 0,
                registration |-> [e \in Elements |-> "absent"],
                queuedEntries |-> <<>>]

\* The first render of the component: the hook is called with its arguments
\* and its effect is scheduled; there is no earlier effect to clean up.
Mount(sel, cls, opts) ==
    /\ phase = "idle"
    /\ phase' = "committing"
    /\ targetSelector' = sel
    /\ visibleClass' = cls
    /\ options' = opts
    /\ UNCHANGED <<hostVars, other, error, targets, engineConfig, registration,
                   queuedEntries, classList, ratio>>

\* A later render with new arguments (the options object is a new one at
\* every render): the cleanup of the previous effect runs.
Rerender(sel, cls, opts) ==
    /\ phase = "active"
    /\ phase' = "committing"
    /\ targetSelector' = sel
    /\ visibleClass' = cls
    /\ options' = opts
    /\ registration' = CleanupLoop(targets, 1, registration)
    /\ queuedEntries' = CleanupQueue(targets, 1, queuedEntries, unobserveDrops)
    /\ UNCHANGED <<hostVars, other, error, targets, engineConfig, classList, ratio>>

\* An effect body that returns silently when the host has no
\* IntersectionObserver.
EffectNoCapabilitySilent ==
    /\ phase = "committing"
    /\ observerRef = "null"
    /\ ~hasIO
    /\ phase' = "active"
    /\ UNCHANGED <<hostVars, other, error, targetSelector, visibleClass, options, targets,
                   engineConfig, registration, queuedEntries, classList, ratio>>

\* The effect body, when the host has no IntersectionObserver: the
\* construction throws a ReferenceError.
EffectNoCapability ==
    /\ phase = "committing"
    /\ observerRef = "null"
    /\ ~hasIO
    /\ phase' = "failed"
    /\ error' = "ReferenceError"
    /\ UNCHANGED <<hostVars, other, targetSelector, visibleClass, options, targets,
                   engineConfig, registration, queuedEntries, classList, ratio>>

\* options.rootMargin || '0px'
RootMarginOrDefault(rm) == IF rm = "undefined" \/ rm = "" THEN "0px" ELSE rm

\* A construction without the test of the ref: every effect body makes a
\* new engine with its own callback and options.
EngineAlwaysConstructed(ref, cb, thr, rm, cls, opts) ==
    [ref |-> "io",
     callback |-> [visibleClass |-> cls, triggerOnce |-> opts.triggerOnce],
     threshold |-> opts.threshold,
     rootMargin |-> RootMarginOrDefault(opts.rootMargin),
     isNew |-> TRUE]

\* The engine after lines 26-32: constructed now with this effect's callback
\* and options if there was none, the one of the ref otherwise.
EngineAfterConstruction(ref, cb, thr, rm, cls, opts) ==
    IF ref = "null"
    THEN [ref |-> "io",
          callback |-> [visibleClass |-> cls, triggerOnce |-> opts.triggerOnce],
          threshold |-> opts.threshold,
          rootMargin |-> RootMarginOrDefault(opts.rootMargin),
          isNew |-> TRUE]
    ELSE [ref |-> ref, callback |-> cb, threshold |-> thr, rootMargin |-> rm,
          isNew |-> FALSE]

\* The effect body with a malformed selector: the engine is constructed if
\* there was none, then querySelectorAll throws a SyntaxError.
EffectBadSelector ==
    /\ phase = "committing"
    /\ observerRef # "null" \/ hasIO
    /\ QuerySelectorAll(targetSelector).threw
    /\ LET io == EngineAfterConstruction(observerRef, ioCallback, ioThreshold,
                                         ioRootMargin, visibleClass, options)
       IN  /\ observerRef' = io.ref
           /\ ioCallback' = io.callback
           /\ ioThreshold' = io.threshold
           /\ ioRootMargin' = io.rootMargin
           /\ constructed' = constructed + (IF io.isNew THEN 1 ELSE 0)
    /\ phase' = "failed"
    /\ error' = "SyntaxError"
    /\ UNCHANGED <<hostVars, other, targetSelector, visibleClass, options, targets,
                   registration, queuedEntries, classList, ratio>>

\* The effect body that runs to its end: the engine is constructed if there
\* was none, the targets are resolved and attached one by one.
Effect ==
    /\ phase = "committing"
    /\ observerRef # "null" \/ hasIO
    /\ ~QuerySelectorAll(targetSelector).threw
    /\ LET io == EngineAfterConstruction(observerRef, ioCallback, ioThreshold,
                                         ioRootMargin, visibleClass, options)
           ts == QuerySelectorAll(targetSelector).nodes
           st == AttachLoop(ts, 1,
                            [classList |-> classList,
                             registration |-> registration,
                             queuedEntries |-> queuedEntries],
                            visibleClass, options)
       IN  /\ observerRef' = io.ref
           /\ ioCallback' = io.callback
           /\ ioThreshold' = io.threshold
           /\ ioRootMargin' = io.rootMargin
           /\ constructed' = constructed + (IF io.isNew THEN 1 ELSE 0)
           /\ targets' = ts
           /\ classList' = st.classList
           /\ registration' = st.registration
           /\ queuedEntries' = st.queuedEntries
    /\ phase' = "active"
    /\ UNCHANGED <<hostVars, other, error, targetSelector, visibleClass, options, ratio>>

\* A cleanup that also takes the class from the targets it releases.
UnmountRemovesMarkers ==
    /\ phase = "active"
    /\ phase' = "unmounted"
    /\ registration' = CleanupLoop(targets, 1, registration)
    /\ classList' = [e \in Elements |->
                        IF \E i \in 1..Len(targets) : targets[i] = e
                        THEN classList[e] \ {visibleClass}
                        ELSE classList[e]]
    /\ queuedEntries' = CleanupQueue(targets, 1, queuedEntries, unobserveDrops)
    /\ UNCHANGED <<hostVars, other, error, targetSelector, visibleClass, options,
                   targets, engineConfig, ratio>>

\* The component unmounts: the cleanup of the latest effect runs.
Unmount ==
    /\ phase = "active"
    /\ phase' = "unmounted"
    /\ registration' = CleanupLoop(targets, 1, registration)
    /\ queuedEntries' = CleanupQueue(targets, 1, queuedEntries, unobserveDrops)
    /\ UNCHANGED <<hostVars, other, error, targetSelector, visibleClass, options,
                   targets, engineConfig, classList, ratio>>

\* The user scrolls: the intersection ratio of one element changes.
Scroll(e, r) ==
    /\ phase # "committing"
    /\ ratio[e] # r
    /\ ratio' = [ratio EXCEPT ![e] = r]
    /\ UNCHANGED <<hostVars, other, hookVars, engineConfig, registration, queuedEntries,
                   classList>>

\* The page gives the class animate-on-scroll to an element or takes it away.
SetClassName(e, b) ==
    /\ phase # "committing"
    /\ className[e] # b
    /\ className' = [className EXCEPT ![e] = b]
    /\ UNCHANGED <<hasIO, unobserveDrops, other, hookVars, engineConfig,
                   registration, queuedEntries, classList, ratio>>

\* The host's rendering update: a record is queued for every registered
\* target whose state changed since its last record.
UpdateIntersections ==
    /\ phase # "committing"
    /\ observerRef # "null"
    /\ LET new == NewRecords(Document, 1, registration, ratio, ioThreshold)
       IN  /\ new # <<>>
           /\ Len(queuedEntries) + Len(new) <= MaxQueue
           /\ queuedEntries' = queuedEntries \o new
           /\ registration' =
                 [e \in Elements |->
                     IF registration[e] = "absent" THEN "absent"
                     ELSE StateOf(IsIntersecting(ratio[e], ioThreshold))]
    /\ UNCHANGED <<hostVars, other, hookVars, engineConfig, classList, ratio>>

\* The host's notification task: the queued records are handed to the
\* callback the engine was constructed with, and the queue is emptied.
Deliver ==
    /\ phase # "committing"
    /\ observerRef # "null"
    /\ queuedEntries # <<>>
    /\ LET st == IntersectionCallback(queuedEntries, 1,
                                      [classList |-> classList,
                                       registration |-> registration],
                                      ioCallback)
       IN  /\ classList' = st.classList
           /\ registration' = st.registration
    /\ queuedEntries' = <<>>
    /\ UNCHANGED <<hostVars, other, hookVars, engineConfig, ratio>>

----------------------------------------------------------------------------
(* The second scope: the same hook called from another place, with its own *)
(* ref and so its own engine, on the same elements.                        *)

firstScopeVars == <<hookVars, engineConfig, registration, queuedEntries>>

OtherMount(sel, cls, opts) ==
    /\ phase # "committing"
    /\ other.phase = "idle"
    /\ other' = [other EXCEPT !.phase = "committing",
                              !.targetSelector = sel,
                              !.visibleClass = cls,
                              !.options = opts]
    /\ UNCHANGED <<hostVars, firstScopeVars, classList, ratio>>

OtherRerender(sel, cls, opts) ==
    /\ phase # "committing"
    /\ other.phase = "active"
    /\ other' = [other EXCEPT
                    !.phase = "committing",
                    !.targetSelector = sel,
                    !.visibleClass = cls,
                    !.options = opts,
                    !.registration = CleanupLoop(other.targets, 1, @),
                    !.queuedEntries =
                        CleanupQueue(other.targets, 1, @, unobserveDrops)]
    /\ UNCHANGED <<hostVars, firstScopeVars, classList, ratio>>

\* The effect body of the second scope, for a host with the capability and
\* a well-formed selector.
OtherEffect ==
    /\ other.phase = "committing"
    /\ hasIO
    /\ ~QuerySelectorAll(other.targetSelector).threw
    /\ LET io == EngineAfterConstruction(other.observerRef, other.ioCallback,
                                         other.ioThreshold, other.ioRootMargin,
                                         other.visibleClass, other.options)
           ts == QuerySelectorAll(other.targetSelector).nodes
           st == AttachLoop(ts, 1,
                            [classList |-> classList,
                             registration |-> other.registration,
                             queuedEntries |-> other.queuedEntries],
                            other.visibleClass, other.options)
       IN  /\ other' = [other EXCEPT
                           !.phase = "active",
                           !.observerRef = io.ref,
                           !.ioCallback = io.callback,
                           !.ioThreshold = io.threshold,
                           !.ioRootMargin = io.rootMargin,
                           !.constructed = @ + (IF io.isNew THEN 1 ELSE 0),
                           !.targets = ts,
                           !.registration = st.registration,
                           !.queuedEntries = st.queuedEntries]
           /\ classList' = st.classList
    /\ UNCHANGED <<hostVars, firstScopeVars, ratio>>

\* A second scope whose cleanup works on an engine the two scopes share (a
\* module-level observer in place of the ref).
OtherUnmountSharedEngine ==
    /\ phase # "committing"
    /\ other.phase = "active"
    /\ other' = [other EXCEPT !.phase = "unmounted"]
    /\ registration' = CleanupLoop(other.targets, 1, registration)
    /\ UNCHANGED <<hostVars, hookVars, engineConfig, queuedEntries, classList,
                   ratio>>

OtherUnmount ==
    /\ phase # "committing"
    /\ other.phase = "active"
    /\ other' = [other EXCEPT
                    !.phase = "unmounted",
                    !.registration = CleanupLoop(other.targets, 1, @),
                    !.queuedEntries =
                        CleanupQueue(other.targets, 1, @, unobserveDrops)]
    /\ UNCHANGED <<hostVars, firstScopeVars, classList, ratio>>

OtherUpdateIntersections ==
    /\ phase # "committing"
    /\ other.phase # "committing"
    /\ other.observerRef # "null"
    /\ LET new == NewRecords(Document, 1, other.registration, ratio,
                             other.ioThreshold)
       IN  /\ new # <<>>
           /\ Len(other.queuedEntries) + Len(new) <= MaxQueue
           /\ other' = [other EXCEPT
                           !.queuedEntries = @ \o new,
                           !.registration =
                               [e \in Elements |->
                                   IF other.registration[e] = "absent"
                                   THEN "absent"
                                   ELSE StateOf(IsIntersecting(
                                            ratio[e], other.ioThreshold))]]
    /\ UNCHANGED <<hostVars, firstScopeVars, classList, ratio>>

OtherDeliver ==
    /\ phase # "committing"
    /\ other.phase # "committing"
    /\ other.observerRef # "null"
    /\ other.queuedEntries # <<>>
    /\ LET st == IntersectionCallback(other.queuedEntries, 1,
                                      [classList |-> classList,
                                       registration |-> other.registration],
                                      other.ioCallback)
       IN  /\ classList' = st.classList
           /\ other' = [other EXCEPT !.registration = st.registration,
                                     !.queuedEntries = <<>>]
    /\ UNCHANGED <<hostVars, firstScopeVars, ratio>>

----------------------------------------------------------------------------
Next ==
    \/ \E sel \in Selectors, cls \in VisibleClasses, opts \in OptionsSet :
          Mount(sel, cls, opts)
    \/ \E sel \in Selectors, cls \in VisibleClasses, opts \in OptionsSet :
          Rerender(sel, cls, opts)
    \/ EffectNoCapability
    \/ EffectBadSelector
    \/ Effect
    \/ Unmount
    \/ \E e \in Elements, r \in Ratios : Scroll(e, r)
    \/ UpdateIntersections
    \/ Deliver

Spec == Init /\ [][Next]_vars

\* The same scope on a host with the capability, with a caller that changes
\* threshold and rootMargin between renders.
InitConfig == Init /\ hasIO

NextConfig ==
    \/ \E sel \in {".animate-on-scroll", "p"}, opts \in ConfigOptionsSet :
          Mount(sel, "is-visible", opts)
    \/ \E sel \in {".animate-on-scroll", "p"}, opts \in ConfigOptionsSet :
          Rerender(sel, "is-visible", opts)
    \/ Effect
    \/ Unmount
    \/ \E e \in Elements, r \in Ratios : Scroll(e, r)
    \/ UpdateIntersections
    \/ Deliver

SpecConfig == InitConfig /\ [][NextConfig]_vars

\* The same scope on a page that changes which elements have the class the
\* selector names.
InitDom == Init /\ hasIO

NextDom ==
    \/ \E opts \in OptionsSet : Mount(".animate-on-scroll", "is-visible", opts)
    \/ \E opts \in OptionsSet : Rerender(".animate-on-scroll", "is-visible", opts)
    \/ Effect
    \/ Unmount
    \/ \E e \in Elements, r \in Ratios : Scroll(e, r)
    \/ \E e \in Elements, b \in BOOLEAN : SetClassName(e, b)
    \/ UpdateIntersections
    \/ Deliver

SpecDom == InitDom /\ [][NextDom]_vars

\* Two scopes at once, as App.js calls the hook more than once: one on the
\* class selector, one on a selector that matches an element of the first. A step of the
\* first scope or of the page waits for a commit of the second to end.
InitTwo == Init /\ hasIO

OtherSettled == other.phase # "committing"

NextTwo ==
    \/ \E opts \in OptionsSet :
          OtherSettled /\ Mount(".animate-on-scroll", "is-visible", opts)
    \/ \E opts \in OptionsSet :
          OtherSettled /\ Rerender(".animate-on-scroll", "is-visible", opts)
    \/ OtherSettled /\ Effect
    \/ OtherSettled /\ Unmount
    \/ \E e \in Elements, r \in Ratios : OtherSettled /\ Scroll(e, r)
    \/ OtherSettled /\ UpdateIntersections
    \/ OtherSettled /\ Deliver
    \/ \E opts \in OptionsSet : OtherMount("p", "is-visible", opts)
    \/ \E opts \in OptionsSet : OtherRerender("p", "is-visible", opts)
    \/ OtherEffect
    \/ OtherUnmount
    \/ OtherUpdateIntersections
    \/ OtherDeliver

SpecTwo == InitTwo /\ [][NextTwo]_vars

----------------------------------------------------------------------------
(* Vocabulary of the properties.                                           *)

Range(s) == {s[i] : i \in 1..Len(s)}

\* The step is a run of the notification task (the only step that empties a
\* non-empty queue and leaves the phase alone).
IsDeliverStep ==
    /\ queuedEntries # <<>>
    /\ queuedEntries' = <<>>
    /\ phase' = phase

\* The step is an effect body running from its start to its end or its throw.
IsActivationStep == phase = "committing" /\ phase' # "committing"

HasEntry(q, t) == \E k \in 1..Len(q) : q[k].target = t

\* isIntersecting of the last record of q that is about t.
LastIsIntersecting(q, t) ==
    LET k == CHOOSE i \in 1..Len(q) :
                 /\ q[i].target = t
                 /\ \A j \in (i + 1)..Len(q) : q[j].target # t
    IN  q[k].isIntersecting

\* The session was started with triggerOnce = true and its latest activation
\* has triggerOnce = true.
TriggerOnceSession ==
    /\ observerRef # "null"
    /\ ioCallback.triggerOnce
    /\ options.triggerOnce

----------------------------------------------------------------------------
\* C1: while the session's configuration has triggerOnce = true, no step
\* (event delivery, re-activation, teardown, scroll, engine update) removes
\* the marker from an element that carries it.
C1_MarkerNeverRemoved ==
    [][(observerRef # "null" /\ options.triggerOnce) =>
          \A e \in Elements :
             visibleClass \in classList[e] => visibleClass \in classList'[e]]_vars

\* C2: while the session is active with triggerOnce = false, after every run
\* of the callback each element the batch reports carries the marker if and
\* only if the last record of the batch about it is intersecting.
C2_MarkerMirrorsLastEvent ==
    [][(IsDeliverStep /\ phase = "active" /\ ~options.triggerOnce) =>
          \A t \in Elements :
             HasEntry(queuedEntries, t) =>
                (visibleClass \in classList'[t]
                    <=> LastIsIntersecting(queuedEntries, t))]_vars

\* C3: every target that intersects at the configured threshold when the
\* effect body runs carries the marker when the body ends, and is registered
\* with the engine exactly when triggerOnce is false.
C3_MarkedAtActivation ==
    [][(IsActivationStep /\ phase' = "active") =>
          \A t \in Range(targets') :
             IsIntersecting(ratio[t], options.threshold) =>
                /\ visibleClass \in classList'[t]
                /\ options.triggerOnce => registration'[t] = "absent"
                /\ ~options.triggerOnce => registration'[t] # "absent"]_vars

\* C4: with triggerOnce = true, the callback releases the element it marks in
\* the same step, and a marked element that is not registered is never
\* registered again.
C4_ReleasedForGood ==
    [][TriggerOnceSession =>
          /\ IsDeliverStep =>
                \A t \in Elements :
                   (\E k \in 1..Len(queuedEntries) :
                       /\ queuedEntries[k].target = t
                       /\ queuedEntries[k].isIntersecting)
                   => registration'[t] = "absent"
          /\ \A t \in Elements :
                (classList[t] # {} /\ registration[t] = "absent")
                => registration'[t] = "absent"]_vars

\* C5: once the scope has ended, no class of any element changes.
C5_NoMutationAfterTeardown ==
    [][phase = "unmounted" => classList' = classList]_vars

\* C6: the registered elements are among the targets the latest effect body
\* resolved; between the cleanup and the next effect body, and after the
\* scope ended, no element is registered.
C6_NoStaleSubscriptions ==
    /\ Observed(registration) \subseteq Range(targets)
    /\ phase \in {"idle", "committing", "unmounted", "failed"}
          => Observed(registration) = {}

\* C6 witness: the cleanup of a re-activation has just released elements
\* that are no targets of the selector about to be resolved.
C6_Witness ==
    /\ phase = "committing"
    /\ targets = <<"h1", "p">>
    /\ targetSelector = "p"
    /\ classList["h1"] = {}
    /\ queuedEntries # <<>>

\* C7: the callback handles the records of the current targets with the
\* arguments of the latest activation: an intersecting element gets the
\* latest class and is released if the latest triggerOnce is true, an
\* element that left loses the latest class if the latest triggerOnce is
\* false.
C7_LatestParameters ==
    [][(IsDeliverStep /\ phase = "active") =>
          \A t \in Range(targets) :
             HasEntry(queuedEntries, t) =>
                IF LastIsIntersecting(queuedEntries, t)
                THEN /\ visibleClass \in classList'[t]
                     /\ options.triggerOnce => registration'[t] = "absent"
                ELSE ~options.triggerOnce => visibleClass \notin classList'[t]]_vars

\* C8: an effect body whose selector matches no element ends without an
\* error, registers nothing and changes no class.
C8_ZeroTargets ==
    [][(/\ IsActivationStep
        /\ IsValidSelector(targetSelector)
        /\ SelectSeq2(Document, 1, targetSelector) = <<>>
        /\ (hasIO \/ observerRef # "null")) =>
          /\ phase' = "active"
          /\ error' = "none"
          /\ targets' = <<>>
          /\ registration' = registration
          /\ classList' = classList]_vars

\* C8 witness: a re-activation with a selector that matches nothing ended,
\* with records still queued and markers in place.
C8_Witness ==
    /\ phase = "active"
    /\ targetSelector = "h2"
    /\ targets = <<>>
    /\ error = "none"
    /\ queuedEntries # <<>>
    /\ \E e \in Elements : classList[e] # {}

\* C9: without the capability the effect body ends in the ReferenceError of
\* the construction, no engine exists, nothing is registered and no class
\* has changed.
C9_CapabilityError ==
    /\ [][(IsActivationStep /\ ~hasIO) =>
             /\ phase' = "failed"
             /\ error' = "ReferenceError"
             /\ classList' = classList
             /\ registration' = registration]_vars
    /\ [](~hasIO => /\ observerRef = "null"
                    /\ Observed(registration) = {}
                    /\ \A e \in Elements : classList[e] = {})

\* C9 witness: the activation has failed on a host without the capability.
C9_Witness ==
    /\ ~hasIO
    /\ phase = "failed"
    /\ error = "ReferenceError"
    /\ \E e \in Elements : ratio[e] = 100

\* C10: an effect body with a malformed selector ends in the SyntaxError,
\* registers and releases nothing and changes no class; the failed scope
\* runs no further effect body.
C10_MalformedSelector ==
    [][/\ (/\ IsActivationStep
           /\ ~IsValidSelector(targetSelector)
           /\ (hasIO \/ observerRef # "null")) =>
             /\ phase' = "failed"
             /\ error' = "SyntaxError"
             /\ registration' = registration
             /\ classList' = classList
             /\ targets' = targets
       /\ phase = "failed" =>
             /\ phase' = "failed"
             /\ error' = error
             /\ registration' = registration]_vars

\* C10 witness: a re-activation with a malformed selector has failed after
\* an earlier evaluation had attached and marked elements.
C10_Witness ==
    /\ phase = "failed"
    /\ error = "SyntaxError"
    /\ targets = <<"h1", "p">>
    /\ \E e \in Elements : classList[e] # {}

----------------------------------------------------------------------------
\* An intersecting record about t is in the queue q.
HasIntersectingEntry(q, t) ==
    \E k \in 1..Len(q) : q[k].target = t /\ q[k].isIntersecting

\* C12: an intersecting record that is queued for a target of the newly
\* resolved set when the effect body runs is not lost: when the body ends
\* the target carries the marker, or the record is still queued for a later
\* delivery.
C12_PendingRecordsKept ==
    [][(IsActivationStep /\ phase' = "active") =>
          \A t \in Range(targets') :
             HasIntersectingEntry(queuedEntries, t) =>
                \/ visibleClass \in classList'[t]
                \/ HasIntersectingEntry(queuedEntries', t)]_vars

Reverse(q) == [i \in 1..Len(q) |-> q[Len(q) + 1 - i]]

\* The records of q are about pairwise distinct elements.
DistinctTargets(q) ==
    \A i, j \in 1..Len(q) : i # j => q[i].target # q[j].target

\* C13: a run of the callback leaves the classes and the registration of
\* every element that no record of the batch is about as they were, and for
\* a batch about distinct elements the batch in reverse order gives the same
\* classes and registrations.
C13_OnlyReportedTargets ==
    [][IsDeliverStep =>
          /\ \A t \in Elements :
                ~HasEntry(queuedEntries, t) =>
                   /\ classList'[t] = classList[t]
                   /\ registration'[t] = registration[t]
          /\ DistinctTargets(queuedEntries) =>
                LET st == IntersectionCallback(Reverse(queuedEntries), 1,
                                               [classList |-> classList,
                                                registration |-> registration],
                                               ioCallback)
                IN  /\ classList' = st.classList
                    /\ registration' = st.registration]_vars

\* C13 witness: the callback has marked and released one element, and the
\* other, which no record was about, is still registered and unmarked.
C13_Witness ==
    /\ phase = "active"
    /\ ioCallback.triggerOnce
    /\ queuedEntries = <<>>
    /\ registration["h1"] = "notIntersecting"
    /\ classList["h1"] = {}
    /\ registration["p"] = "absent"
    /\ classList["p"] # {}
    /\ targets = <<"h1", "p">>

\* C15: while a session with triggerOnce = true is active, every target of
\* the latest resolved set is registered or carries the class of the latest
\* activation.
C15_ObservedOrMarked ==
    (TriggerOnceSession /\ phase = "active") =>
       \A t \in Range(targets) :
          registration[t] # "absent" \/ visibleClass \in classList[t]

\* C16: the cleanup, at a re-activation or at the end of the scope, changes
\* no class of any element.
C16_TeardownKeepsMarkers ==
    [][(phase = "active" /\ phase' \in {"committing", "unmounted"}) =>
          classList' = classList]_vars

\* C16 witness: the cleanup of a re-activation has just run, every target is
\* released, and a target carries the marker it got during the session.
C16_Witness ==
    /\ phase = "committing"
    /\ targets # <<>>
    /\ Observed(registration) = {}
    /\ \E t \in Range(targets) : ioCallback.visibleClass \in classList[t]

----------------------------------------------------------------------------
\* C11: the scope constructs at most one engine, in its first effect body,
\* with the callback, threshold and rootMargin of that activation; once the
\* ref holds an engine, no step replaces it or changes what it was
\* constructed with, whatever the later arguments are.
C11_OneEngine ==
    /\ [][/\ observerRef # "null" => UNCHANGED engineConfig
          /\ (observerRef = "null" /\ observerRef' # "null") =>
                /\ constructed' = 1
                /\ ioThreshold' = options.threshold
                /\ ioRootMargin' = RootMarginOrDefault(options.rootMargin)
                /\ ioCallback' = [visibleClass |-> visibleClass,
                                  triggerOnce |-> options.triggerOnce]]_vars
    /\ [](/\ constructed <= 1
          /\ phase \in {"active", "unmounted"} => constructed = 1)

\* C11 witness: after a re-activation with another threshold, rootMargin and
\* triggerOnce the one engine still has what it was constructed with.
C11_Witness ==
    /\ phase = "active"
    /\ constructed = 1
    /\ options.threshold # ioThreshold
    /\ RootMarginOrDefault(options.rootMargin) # ioRootMargin
    /\ options.triggerOnce # ioCallback.triggerOnce
    /\ Observed(registration) # {}

----------------------------------------------------------------------------
\* C17: while the session is active, an element that matches the selector
\* but is not in the target list the latest effect body resolved (it started
\* to match afterwards) is not registered and no step changes its classes;
\* and the cleanup releases the elements of that list and no others.
C17_TargetsFixedAtActivation ==
    [][/\ (phase = "active" /\ phase' = "active") =>
             \A e \in Elements \ Range(targets) :
                MatchesSelector(e, targetSelector) =>
                   /\ registration'[e] = "absent"
                   /\ classList'[e] = classList[e]
       /\ (phase = "active" /\ phase' \in {"committing", "unmounted"}) =>
             \A e \in Elements :
                registration'[e] =
                   IF e \in Range(targets) THEN "absent" ELSE registration[e]]_vars

----------------------------------------------------------------------------
\* C14: with two scopes on the same elements, a step of one session (its
\* activation, its event handling, its teardown) never registers or releases
\* an element on the other session's engine, and each session has
\* constructed its own single engine.
C14_OwnEngine ==
    /\ [][/\ other' # other =>
                Observed(registration') = Observed(registration)
          /\ firstScopeVars' # firstScopeVars =>
                Observed(other.registration') = Observed(other.registration)
         ]_vars
    /\ [](/\ phase = "active" => constructed = 1
          /\ other.phase = "active" => other.constructed = 1)

\* C14 witness: both sessions resolved "p"; the second was torn down and
\* released it on its own engine while the first session's engine still
\* observes it.
C14_Witness ==
    /\ phase = "active"
    /\ other.phase = "unmounted"
    /\ "p" \in Range(targets)
    /\ "p" \in Range(other.targets)
    /\ registration["p"] # "absent"
    /\ other.registration["p"] = "absent"
    /\ constructed = 1
    /\ other.constructed = 1

====
